---- MODULE Spec2Model ----
(***************************************************************************)
(* A model of gui/popups.py: the property-tree walker of QuickConfigGui,   *)
(* the form builder and the settings apply/diff handler of ConfigPopup,    *)
(* and the new-game handler of NewGamePopup.                               *)
(*                                                                         *)
(* Python values are records [t |-> <type name>, v |-> <payload>]; a dict  *)
(* is an insertion-ordered mapping [keys |-> <sequence>, val |-> <map>];   *)
(* a flat property key "k1/k2" is the pair <<k1, k2>>; a widget is a       *)
(* record [cls, input_property, text, children].                           *)
(***************************************************************************)
EXTENDS Integers, Sequences, FiniteSets, TLC

VARIABLES
    config,        \* the config store (self.config): category -> field -> value
    ignore_cats,   \* self.ignore_cats
    popup,         \* the popup on screen: "none", "config" or "new_game"
    scheduled,     \* Clock.schedule_once(self._build, 0) is pending
    root,          \* the widget tree of the popup's content (self)
    props_in_col,  \* the running field-count totals of _build
    placed,        \* the column assignments of _build, in the order made
    info_text,     \* info_label.text (ConfigPopup) / info.text (NewGamePopup)
    engine,        \* katrain.engine
    game_engine,   \* katrain.game.engine (the id of the engine object)
    effects,       \* the collaborator calls made by the handler that ran last
    raised,        \* the exception that escaped the handler that ran last
    updated_cat,   \* the handler's local updated_cat, as the handler left it
    new_root,      \* the properties of the GameNode new_game constructed
    dispatched,    \* the actions handed to the application: <<name, payload>>
    constructed,   \* the engines the handler that ran last constructed
    call           \* the event handled last: its name and save_to_file

vars == <<config, ignore_cats, popup, scheduled, root, props_in_col, placed,
          info_text, engine, game_engine, effects, raised, updated_cat, new_root,
          dispatched, constructed, call>>

-----------------------------------------------------------------------------
(* Bounds of the model *)

MaxCats == 3
MaxTotalFields == 3
MaxEngines == 2

(* Names for the generated settings mappings of SpecBuild *)
CatNames == <<"engine", "trainer", "ui", "debug", "misc">>
FieldNames == <<"f1", "f2", "f3", "f4", "f5">>
PyTypes == {"float", "bool", "int", "str", "dict", "list"}

-----------------------------------------------------------------------------
(* Python values and dicts *)

Val(t, v) == [t |-> t, v |-> v]

EmptyDict == [keys |-> <<>>, val |-> <<>>]

Range(s) == {s[i] : i \in DOMAIN s}

\* isinstance(value, classes): bool is a subclass of int
isinstance(value, classes) ==
    (IF value.t = "bool" THEN {"bool", "int"} ELSE {value.t}) \cap classes # {}

\* a != b of two Python values: numbers compare by value across bool, int, float
PyNotEqual(a, b) ==
    LET num == {"bool", "int", "float"}
    IN  IF a.t \in num /\ b.t \in num THEN a.v # b.v
        ELSE IF a.t = b.t THEN a.v # b.v
        ELSE TRUE

\* str(value) for the values of the model
str(value) ==
    CASE value.t = "bool"  -> (IF value.v = 1 THEN "True" ELSE "False")
      [] value.t = "int"   -> (CASE value.v = 100 -> "100"
                                 [] value.v = 500 -> "500"
                                 [] OTHER -> "0")
      [] value.t = "float" -> (CASE value.v = 5 -> "5.0"
                                 [] value.v = 8 -> "8.0"
                                 [] value.v = 100 -> "100.0"
                                 [] value.v = 500 -> "500.0"
                                 [] OTHER -> "0.0")
      [] value.t = "str"   -> value.v
      [] value.t = "dict"  -> "{}"
      [] OTHER             -> "[]"

-----------------------------------------------------------------------------
(* Widgets *)

Widget(cls, key, text, children) ==
    [cls |-> cls, input_property |-> key, text |-> text, children |-> children]

NoKey == <<>>

\* the widget classes that are LabelledTextInput or LabelledSpinner instances
EditableClasses ==
    {"LabelledTextInput", "LabelledSpinner", "LabelledFloatInput",
     "LabelledIntInput", "LabelledCheckBox", "LabelledObjectInputArea"}

\* widget.input_value: the typed value of the leaf's text, or a failure
input_value(widget) ==
    LET txt == widget.text
        ok(v) == [ok |-> TRUE, value |-> v]
        fail  == [ok |-> FALSE, value |-> Val("str", txt)]
    IN  CASE widget.cls = "LabelledIntInput" ->
               (CASE txt = "100" -> ok(Val("int", 100))
                  [] txt = "500" -> ok(Val("int", 500))
                  [] txt = "0"   -> ok(Val("int", 0))
                  [] OTHER -> fail)
          [] widget.cls = "LabelledFloatInput" ->
               (CASE txt = "5.0" -> ok(Val("float", 5))
                  [] txt = "8.0" -> ok(Val("float", 8))
                  [] txt = "100" -> ok(Val("float", 100))
                  [] txt = "500" -> ok(Val("float", 500))
                  [] txt = "100.0" -> ok(Val("float", 100))
                  [] txt = "500.0" -> ok(Val("float", 500))
                  [] OTHER -> fail)
          [] widget.cls = "LabelledCheckBox" ->
               ok(Val("bool", IF txt = "True" THEN 1 ELSE 0))
          [] OTHER -> ok(Val("str", txt))

-----------------------------------------------------------------------------
(* QuickConfigGui: the property-tree walker *)

RECURSIVE collect_properties(_)
RECURSIVE collect_children(_, _)

\* the loop over widget.children: later children overwrite earlier ones, the
\* first failure ends the pass
collect_children(cs, ret) ==
    IF cs = <<>> \/ ~ret.ok THEN ret
    ELSE LET sub == collect_properties(Head(cs))
             dom == DOMAIN ret.props \cup DOMAIN sub.props
         IN  IF ~sub.ok THEN sub
             ELSE collect_children(Tail(cs),
                    [ok |-> TRUE, key |-> NoKey, order |-> ret.order \o
                        SelectSeq(sub.order, LAMBDA k : k \notin DOMAIN ret.props),
                     props |-> [k \in dom |-> IF k \in DOMAIN sub.props
                                              THEN sub.props[k] ELSE ret.props[k]]])

\* a faulty variant: a leaf whose value cannot be read is skipped, nothing is raised
collect_properties_Swallow(widget) ==
    IF widget.cls \in EditableClasses /\ input_value(widget).ok
    THEN collect_children(widget.children,
            [ok |-> TRUE, key |-> NoKey,
             order |-> <<widget.input_property>>,
             props |-> [k \in {widget.input_property} |->
                          input_value(widget).value]])
    ELSE collect_children(widget.children,
            [ok |-> TRUE, key |-> NoKey, order |-> <<>>, props |-> <<>>])

\* [ok, props, order] on success (props in dict order), [ok = FALSE, key] when
\* reading a leaf raised: the InputParseError names that leaf's key
collect_properties(widget) ==
    IF widget.cls \in EditableClasses
    THEN LET r == input_value(widget)
         IN  IF ~r.ok
             THEN [ok |-> FALSE, key |-> widget.input_property,
                   order |-> <<>>, props |-> <<>>]
             ELSE collect_children(widget.children,
                    [ok |-> TRUE, key |-> NoKey,
                     order |-> <<widget.input_property>>,
                     props |-> [k \in {widget.input_property} |-> r.value]])
    ELSE collect_children(widget.children,
            [ok |-> TRUE, key |-> NoKey, order |-> <<>>, props |-> <<>>])

RECURSIVE set_properties(_, _)
\* the widget tree with the text of every leaf whose key is in properties set
set_properties(widget, properties) ==
    [widget EXCEPT
        !.text = IF /\ widget.cls \in EditableClasses
                    /\ widget.input_property \in DOMAIN properties
                 THEN str(properties[widget.input_property]) ELSE @,
        !.children = [i \in DOMAIN @ |-> set_properties(@[i], properties)]]

-----------------------------------------------------------------------------
(* ConfigPopup: the form builder *)

\* a faulty variant: int is tested before bool
type_to_widget_class_IntFirst(value) ==
    IF isinstance(value, {"float"}) THEN "LabelledFloatInput"
    ELSE IF isinstance(value, {"int"}) THEN "LabelledIntInput"
    ELSE IF isinstance(value, {"bool"}) THEN "LabelledCheckBox"
    ELSE IF isinstance(value, {"dict"}) THEN "LabelledObjectInputArea"
    ELSE "LabelledTextInput"

type_to_widget_class(value) ==
    IF isinstance(value, {"float"}) THEN "LabelledFloatInput"
    ELSE IF isinstance(value, {"bool"}) THEN "LabelledCheckBox"
    ELSE IF isinstance(value, {"int"}) THEN "LabelledIntInput"
    ELSE IF isinstance(value, {"dict"}) THEN "LabelledObjectInputArea"
    ELSE "LabelledTextInput"

\* a faulty variant: dict values pass the filter too
KeptFields_WithDict(all_d) ==
    SelectSeq(all_d.keys,
        LAMBDA k : isinstance(all_d.val[k], {"int", "float", "str", "bool", "dict"}))

\* d = {k: v for k, v in all_d.items() if isinstance(v, (int, float, str, bool))}:
\* the keys of d, in the order of all_d
KeptFields(all_d) ==
    SelectSeq(all_d.keys,
        LAMBDA k : isinstance(all_d.val[k], {"int", "float", "str", "bool"}))

\* a faulty variant: the sort key is the number of fields kept by the type filter
SortKey_Kept(all_d) == 0 - Len(KeptFields(all_d))

\* key=lambda tup: -len(tup[1])
SortKey(all_d) == 0 - Len(all_d.keys)

RECURSIVE sorted_keys(_, _)
\* sorted(self.config.items(), key=...): a stable sort, here by insertion of
\* each key after the last one whose sort key is not larger
sorted_keys(cfg, ks) ==
    IF ks = <<>> THEN <<>>
    ELSE LET rest == sorted_keys(cfg, SubSeq(ks, 1, Len(ks) - 1))
             k    == ks[Len(ks)]
             n    == Cardinality({i \in DOMAIN rest :
                        SortKey(cfg.val[rest[i]]) <= SortKey(cfg.val[k])})
         IN  SubSeq(rest, 1, n) \o <<k>> \o SubSeq(rest, n + 1, Len(rest))

\* the GridLayout of one category: an empty label, the header, then a label
\* and an input widget per kept field
CategoryBlock(k1, all_d) ==
    LET d == KeptFields(all_d)
        row(k2) == <<Widget("ScaledLightLabel", NoKey, k2, <<>>),
                     Widget(type_to_widget_class(all_d.val[k2]), <<k1, k2>>,
                            str(all_d.val[k2]), <<>>)>>
        RECURSIVE rows(_)
        rows(ks) == IF ks = <<>> THEN <<>> ELSE row(Head(ks)) \o rows(Tail(ks))
    IN  Widget("GridLayout", NoKey, k1,
               <<Widget("Label", NoKey, "", <<>>),
                 Widget("ScaledLightLabel", NoKey, k1, <<>>)>> \o rows(d))

\* a faulty variant: the block goes to the column with the larger total
ChooseColumn_Larger(totals) == IF totals[1] <= totals[2] THEN 2 ELSE 1

\* if props_in_col[0] <= props_in_col[1]: the left column, else the right one
ChooseColumn(totals) == IF totals[1] <= totals[2] THEN 1 ELSE 2

RECURSIVE build_loop(_, _, _, _)
\* the loop of _build over the sorted categories
build_loop(cfg, ignore, ks, acc) ==
    IF ks = <<>> THEN acc
    ELSE LET k1 == Head(ks)
             n  == Len(KeptFields(cfg.val[k1]))
             i  == ChooseColumn(acc.props_in_col)
             totals == [acc.props_in_col EXCEPT ![i] = @ + n]
         IN  IF k1 \in ignore THEN build_loop(cfg, ignore, Tail(ks), acc)
             ELSE build_loop(cfg, ignore, Tail(ks),
                    [cols |-> [acc.cols EXCEPT ![i] =
                                  Append(@, CategoryBlock(k1, cfg.val[k1]))],
                     props_in_col |-> totals,
                     placed |-> Append(acc.placed,
                                  [k1 |-> k1, len_d |-> n, col |-> i,
                                   props_in_col |-> totals])])

\* _build: the two columns, the running totals and the assignments made
_build(cfg, ignore) ==
    build_loop(cfg, ignore, sorted_keys(cfg, cfg.keys),
               [cols |-> <<<<>>, <<>>>>, props_in_col |-> <<0, 0>>,
                placed |-> <<>>])

\* the content of the popup after _build: the column container, then the
\* button row with info_label and the two buttons
BuiltTree(cols) ==
    Widget("ConfigPopup", NoKey, "",
        <<Widget("BoxLayout", NoKey, "",
             <<Widget("BoxLayout", NoKey, "", cols[1]),
               Widget("BoxLayout", NoKey, "", cols[2])>>),
          Widget("BoxLayout", NoKey, "",
             <<Widget("Label", NoKey, "", <<>>),
               Widget("StyledButton", NoKey, "Apply", <<>>),
               Widget("StyledButton", NoKey, "Apply and Save", <<>>)>>)>>)

-----------------------------------------------------------------------------
(* The state after construction *)

NoWidget == Widget("None", NoKey, "", <<>>)

\* a KataGoEngine object: its identity, the engine config it was constructed
\* with, whether its worker process started, and the visit count assigned to
\* it from outside (0: none)
KataGoEngine(id, engine_config, started) ==
    [id |-> id, config |-> engine_config, katago_process |-> started,
     visits |-> 0]

\* what remains of an engine object while it runs: the config dict is the
\* config store's own "engine" dict, not a copy
Running(eng) == [eng EXCEPT !.config = "self.config['engine']"]

MakeDict(keys, f) == [keys |-> keys, val |-> [k \in Range(keys) |-> f[k]]]

\* the settings the application starts with
InitConfig ==
    MakeDict(<<"engine", "trainer", "debug">>,
      [k1 \in {"engine", "trainer", "debug"} |->
         CASE k1 = "engine" ->
                MakeDict(<<"visits", "max_visits", "max_time", "model_path">>,
                   [k2 \in {"visits", "max_visits", "max_time", "model_path"} |->
                      CASE k2 = "visits" -> Val("int", 100)
                        [] k2 = "max_visits" -> Val("int", 500)
                        [] k2 = "max_time" -> Val("float", 5)
                        [] OTHER -> Val("str", "a.bin")])
           [] k1 = "trainer" ->
                MakeDict(<<"theme", "lock_ai", "history">>,
                   [k2 \in {"theme", "lock_ai", "history"} |->
                      CASE k2 = "theme" -> Val("dict", 0)
                        [] k2 = "lock_ai" -> Val("bool", 0)
                        [] OTHER -> Val("list", 0)])
           [] OTHER ->
                MakeDict(<<"level">>, [k2 \in {"level"} |-> Val("int", 0)])])

Call(name, save_to_file) == [name |-> name, save_to_file |-> save_to_file]

\* everything but the settings and the popup: no handler has run
InitRest ==
    /\ props_in_col = <<0, 0>>
    /\ placed = <<>>
    /\ info_text = <<>>
    /\ game_engine = 1
    /\ effects = <<>>
    /\ raised = "None"
    /\ updated_cat = <<>>
    /\ new_root = <<>>
    /\ dispatched = <<>>
    /\ constructed = <<>>

Init ==
    /\ config = InitConfig
    /\ ignore_cats = {"debug"}
    /\ \E started \in BOOLEAN :
          engine = Running(KataGoEngine(1, InitConfig.val["engine"], started))
    /\ popup = "none"
    /\ scheduled = FALSE
    /\ root = NoWidget
    /\ call = Call("start", FALSE)
    /\ InitRest

\* a value of each Python type
DefaultValue(t) ==
    CASE t = "float" -> Val("float", 5)
      [] t = "bool"  -> Val("bool", 1)
      [] t = "int"   -> Val("int", 100)
      [] t = "str"   -> Val("str", "a.bin")
      [] OTHER       -> Val(t, 0)

RECURSIVE SumTo(_, _)
SumTo(f, n) == IF n = 0 THEN 0 ELSE f[n] + SumTo(f, n - 1)

\* the settings mapping with Len(lens) categories, category i of lens[i]
\* fields, the fields' types taken from types in order
GenConfig(lens, types) ==
    LET n == Len(lens)
        cat(i) ==
            LET off == SumTo(lens, i - 1)
                ks  == SubSeq(FieldNames, 1, lens[i])
            IN  [keys |-> ks,
                 val  |-> [k \in Range(ks) |->
                            DefaultValue(types[off +
                               (CHOOSE j \in 1..lens[i] : FieldNames[j] = k)])]]
    IN  [keys |-> SubSeq(CatNames, 1, n),
         val  |-> [c \in {CatNames[i] : i \in 1..n} |->
                     cat(CHOOSE i \in 1..n : CatNames[i] = c)]]

\* the form builder starts from every settings mapping within the bounds,
\* in the state ConfigPopup.__init__ leaves: _build is scheduled
InitBuild ==
    /\ \E n \in 1..MaxCats :
         \E lens \in [1..n -> 0..MaxTotalFields] :
            /\ SumTo(lens, n) <= MaxTotalFields
            /\ \E types \in [1..SumTo(lens, n) -> PyTypes] :
                  config = GenConfig(lens, types)
    /\ ignore_cats \in {{}, {CatNames[2]}}
    /\ engine = Running(KataGoEngine(1, EmptyDict, TRUE))
    /\ popup = "config"
    /\ scheduled = TRUE
    /\ root = Widget("ConfigPopup", NoKey, "", <<>>)
    /\ call = Call("__init__", FALSE)
    /\ InitRest

-----------------------------------------------------------------------------
(* ConfigPopup: construction *)

\* the application opens the settings popup: ConfigPopup.__init__
ConfigPopupInit ==
    /\ popup = "none"
    /\ popup' = "config"
    /\ root' = Widget("ConfigPopup", NoKey, "", <<>>)
    /\ scheduled' = TRUE
    /\ props_in_col' = <<0, 0>>
    /\ placed' = <<>>
    /\ info_text' = <<>>
    /\ effects' = <<>>
    /\ raised' = "None"
    /\ updated_cat' = <<>>
    /\ new_root' = <<>>
    /\ dispatched' = <<>>
    /\ constructed' = <<>>
    /\ call' = Call("__init__", FALSE)
    /\ UNCHANGED <<config, ignore_cats, engine, game_engine>>

\* the next UI tick: ConfigPopup._build
Build ==
    /\ popup = "config"
    /\ scheduled
    /\ scheduled' = FALSE
    /\ LET b == _build(config, ignore_cats)
       IN  /\ root' = BuiltTree(b.cols)
           /\ props_in_col' = b.props_in_col
           /\ placed' = b.placed
    /\ call' = Call("_build", FALSE)
    /\ UNCHANGED <<config, ignore_cats, popup, info_text, engine, game_engine,
                   effects, raised, updated_cat, new_root, dispatched,
                   constructed>>

NextBuild == Build

SpecBuild == InitBuild /\ [][NextBuild]_vars

-----------------------------------------------------------------------------
(* The user edits a leaf of the popup on screen *)

RECURSIVE Leaves(_)
\* the editable leaves of a widget tree
Leaves(widget) ==
    (IF widget.cls \in EditableClasses THEN {widget} ELSE {})
    \cup UNION {Leaves(widget.children[i]) : i \in DOMAIN widget.children}

\* the texts the user enters into a leaf, by its class ("x" is no number)
EditTexts(widget) ==
    CASE widget.input_property = <<"engine", "max_visits">> -> {"100", "500"}
      [] widget.cls = "LabelledIntInput"   -> {"100", "500", "x"}
      [] widget.cls = "LabelledFloatInput" -> {"5.0", "8.0", "x"}
      [] widget.cls = "LabelledCheckBox"   -> {"True", "False"}
      [] widget.cls = "LabelledSpinner"    -> {"japanese", "chinese"}
      [] widget.input_property = <<"SZ">>  -> {"19", "52", "53", "53:19", "19:53"}
      [] OTHER                             -> {"a.bin", "b.bin"}

EditField ==
    /\ popup # "none"
    /\ ~scheduled
    /\ \E w \in Leaves(root) : \E txt \in EditTexts(w) :
          /\ txt # w.text
          /\ root' = set_properties(root,
                        [k \in {w.input_property} |-> Val("str", txt)])
    /\ effects' = <<>>
    /\ raised' = "None"
    /\ updated_cat' = <<>>
    /\ new_root' = <<>>
    /\ dispatched' = <<>>
    /\ constructed' = <<>>
    /\ call' = Call("edit", FALSE)
    /\ UNCHANGED <<config, ignore_cats, popup, scheduled, props_in_col, placed,
                   info_text, engine, game_engine>>

-----------------------------------------------------------------------------
(* ConfigPopup.update_config *)

\* updated_cat[k] of the defaultdict(list): a missing key is inserted with []
defaultdict_getitem(d, k) ==
    IF k \in DOMAIN d THEN d
    ELSE [x \in DOMAIN d \cup {k} |-> IF x = k THEN <<>> ELSE d[x]]

\* a faulty variant: the change is recorded and logged but not written to the store
diff_item_NoWrite(acc, k, v) ==
    LET k1 == k[1]
        k2 == k[2]
        d  == defaultdict_getitem(acc.updated_cat, k1)
    IN  IF PyNotEqual(acc.config.val[k1].val[k2], v)
        THEN [config |-> acc.config,
              updated_cat |-> [d EXCEPT ![k1] = Append(@, k2)],
              effects |-> Append(acc.effects, "log")]
        ELSE acc

\* one iteration of the diff loop: k1, k2 = k.split("/"); a differing value is
\* logged, recorded under its category and written to the store
diff_item(acc, k, v) ==
    LET k1 == k[1]
        k2 == k[2]
        d  == defaultdict_getitem(acc.updated_cat, k1)
    IN  IF PyNotEqual(acc.config.val[k1].val[k2], v)
        THEN [config |-> [acc.config EXCEPT !.val[k1].val[k2] = v],
              updated_cat |-> [d EXCEPT ![k1] = Append(@, k2)],
              effects |-> Append(acc.effects, "log")]
        ELSE acc

RECURSIVE diff_loop(_, _, _)
diff_loop(acc, order, props) ==
    IF order = <<>> THEN acc
    ELSE diff_loop(diff_item(acc, Head(order), props[Head(order)]),
                   Tail(order), props)

\* the_list[index] of a Python list (positions from 0): an index that is no
\* integer raises TypeError
list_getitem(the_list, index) ==
    IF index.t # "int" THEN [ok |-> FALSE, exc |-> "TypeError", value |-> 0]
    ELSE IF index.v + 1 \in DOMAIN the_list
         THEN [ok |-> TRUE, exc |-> "None", value |-> the_list[index.v + 1]]
         ELSE [ok |-> FALSE, exc |-> "IndexError", value |-> 0]

\* a faulty variant: any changed engine field restarts the engine
NeedsRestart_Any(engine_updates) == Range(engine_updates) # {}

\* {key for key in engine_updates if key not in {"max_visits", "max_time"}}
NeedsRestart(engine_updates) ==
    {key \in Range(engine_updates) : key \notin {"max_visits", "max_time"}} # {}

\* the handler after a successful try block: save, hot update, restart, redraw
after_apply(d, eng, game_eng, save_to_file, started) ==
    LET upd == defaultdict_getitem(d.updated_cat, "engine")
        engine_updates == upd["engine"]
        e1 == IF save_to_file THEN Append(d.effects, "save_config") ELSE d.effects
        hot == "visits" \in Range(engine_updates)
        got == list_getitem(engine_updates, Val("str", "visits"))
        eng1 == IF hot THEN [eng EXCEPT !.visits = got.value] ELSE eng
        restart == NeedsRestart(engine_updates)
        new_engine == KataGoEngine(eng1.id + 1, d.config.val["engine"], started)
        e2 == IF restart
              THEN e1 \o <<"log", "set_status", "KataGoEngine",
                           IF eng1.katago_process THEN "shutdown(finish=True)"
                           ELSE "analyze_all_nodes">>
              ELSE e1
        out == [ok |-> TRUE, config |-> d.config, updated_cat |-> upd,
                dismissed |-> TRUE, info |-> <<>>]
    IN  IF hot /\ ~got.ok
        THEN out @@ [effects |-> e1, raised |-> got.exc, engine |-> eng,
                     game_engine |-> game_eng, constructed |-> <<>>]
        ELSE out @@ [effects |-> Append(e2, "update_state(redraw_board=True)"),
                     raised |-> "None",
                     engine |-> IF restart THEN Running(new_engine) ELSE eng1,
                     game_engine |-> IF restart THEN new_engine.id ELSE game_eng,
                     constructed |-> IF restart THEN <<new_engine>> ELSE <<>>]

\* the whole handler: what it leaves behind
update_config(cfg, widget, eng, game_eng, save_to_file, started) ==
    LET c == collect_properties(widget)
        d == diff_loop([config |-> cfg, updated_cat |-> <<>>, effects |-> <<>>],
                       c.order, c.props)
    IN  IF ~c.ok
        THEN [ok |-> FALSE, config |-> cfg, updated_cat |-> <<>>,
              dismissed |-> FALSE,
              info |-> <<"Could not parse value for", c.key>>,
              effects |-> <<"log_error">>, raised |-> "None",
              engine |-> eng, game_engine |-> game_eng, constructed |-> <<>>]
        ELSE after_apply([d EXCEPT !.effects = Append(@, "dismiss")],
                         eng, game_eng, save_to_file, started)

\* the Apply (save_to_file = FALSE) and Apply and Save buttons
UpdateConfig ==
    /\ popup = "config"
    /\ ~scheduled
    /\ \E save_to_file \in BOOLEAN : \E started \in BOOLEAN :
         \E r \in {update_config(config, root, engine, game_engine,
                                 save_to_file, started)} :
             /\ r.constructed # <<>> => engine.id < MaxEngines
             /\ config' = r.config
             /\ popup' = IF r.dismissed THEN "none" ELSE popup
             /\ info_text' = IF r.info # <<>> THEN r.info ELSE info_text
             /\ engine' = r.engine
             /\ game_engine' = r.game_engine
             /\ effects' = r.effects
             /\ raised' = r.raised
             /\ updated_cat' = r.updated_cat
             /\ constructed' = r.constructed
             /\ call' = Call("update_config", save_to_file)
    /\ new_root' = <<>>
    /\ dispatched' = <<>>
    /\ UNCHANGED <<ignore_cats, scheduled, root, props_in_col, placed>>

-----------------------------------------------------------------------------
(* NewGamePopup *)

MaxBoard == 52

\* the rule sets the engine names (KataGoEngine.RULESETS.values())
RULESETS == {"japanese", "chinese"}

\* Game.DEFAULT_PROPERTIES
DEFAULT_PROPERTIES ==
    [k \in {<<"GM">>, <<"FF">>, <<"RU">>, <<"SZ">>} |->
        CASE k = <<"GM">> -> Val("int", 1)
          [] k = <<"FF">> -> Val("int", 4)
          [] k = <<"RU">> -> Val("str", "japanese")
          [] OTHER        -> Val("str", "19")]

\* {**a, **b}: the entries of b override those of a
Merge(a, b) ==
    [k \in DOMAIN a \cup DOMAIN b |-> IF k \in DOMAIN b THEN b[k] ELSE a[k]]

\* GameNode.board_size: the SZ property, "n" or "x:y"
board_size(properties) ==
    LET sz == properties[<<"SZ">>].v
    IN  CASE sz = "19"    -> <<19, 19>>
          [] sz = "52"    -> <<52, 52>>
          [] sz = "53"    -> <<53, 53>>
          [] sz = "53:19" -> <<53, 19>>
          [] sz = "19:53" -> <<19, 53>>
          [] OTHER        -> <<19, 19>>

\* the content of the new-game popup: the board-size input, the rules
\* spinner, the info label and the button
NewGameTree ==
    Widget("NewGamePopup", NoKey, "",
        <<Widget("LabelledTextInput", <<"SZ">>, "19", <<>>),
          Widget("LabelledSpinner", <<"RU">>, "", <<>>),
          Widget("Label", NoKey, "", <<>>),
          Widget("StyledButton", NoKey, "New Game", <<>>)>>)

\* the application opens the new-game popup: NewGamePopup.__init__, with the
\* rules of the current game and the caller's initial values
NewGamePopupInit ==
    /\ popup = "none"
    /\ popup' = "new_game"
    /\ \E ru \in RULESETS : \E sz \in {"19", "52"} :
         LET properties == [k \in {<<"SZ">>, <<"RU">>} |->
                               IF k = <<"RU">> THEN Val("str", ru)
                               ELSE Val("str", sz)]
         IN  root' = set_properties(
                        set_properties(NewGameTree, properties),
                        [k \in {<<"RU">>} |-> properties[<<"RU">>]])
    /\ info_text' = <<>>
    /\ effects' = <<>>
    /\ raised' = "None"
    /\ updated_cat' = <<>>
    /\ new_root' = <<>>
    /\ dispatched' = <<>>
    /\ constructed' = <<>>
    /\ call' = Call("__init__", FALSE)
    /\ UNCHANGED <<config, ignore_cats, scheduled, props_in_col, placed,
                   engine, game_engine>>

\* a faulty variant: the board is too big only when both sides are
TooBig_Both(x, y) == x > MaxBoard /\ y > MaxBoard

\* if x > 52 or y > 52
TooBig(x, y) == x > MaxBoard \/ y > MaxBoard

\* the whole handler: what it leaves behind
new_game(widget) ==
    LET c == collect_properties(widget)
        node == Merge(DEFAULT_PROPERTIES, c.props)
        size == board_size(node)
    IN  IF ~c.ok
        THEN [raised |-> "InputParseError", effects |-> <<>>, new_root |-> <<>>,
              info |-> <<>>, dispatched |-> <<>>, dismissed |-> FALSE]
        ELSE IF TooBig(size[1], size[2])
        THEN [raised |-> "None", effects |-> <<"log", "GameNode">>,
              new_root |-> node,
              info |-> <<"Board size too big, should be at most 52">>,
              dispatched |-> <<>>, dismissed |-> FALSE]
        ELSE [raised |-> "None",
              effects |-> <<"log", "GameNode", "new-game", "dismiss">>,
              new_root |-> node, info |-> <<>>,
              dispatched |-> <<<<"new-game", node>>>>, dismissed |-> TRUE]

NewGame ==
    /\ popup = "new_game"
    /\ \E r \in {new_game(root)} :
           /\ popup' = IF r.dismissed THEN "none" ELSE popup
           /\ info_text' = IF r.info # <<>> THEN r.info ELSE info_text
           /\ effects' = r.effects
           /\ raised' = r.raised
           /\ new_root' = r.new_root
           /\ dispatched' = r.dispatched
    /\ constructed' = <<>>
    /\ updated_cat' = <<>>
    /\ call' = Call("new_game", FALSE)
    /\ UNCHANGED <<config, ignore_cats, scheduled, root, props_in_col, placed,
                   engine, game_engine>>

-----------------------------------------------------------------------------

Next ==
    \/ ConfigPopupInit
    \/ Build
    \/ EditField
    \/ UpdateConfig
    \/ NewGamePopupInit
    \/ NewGame

Spec == Init /\ [][Next]_vars

-----------------------------------------------------------------------------------------------------------------------------------------------------
(* Properties of update_config.  A step of the handler is a step that leaves *)
(* call.name = "update_config"; the handler reads the popup's tree and the   *)
(* store of the state it starts in.                                          *)

ApplyStep == popup = "config" /\ call'.name = "update_config"

\* the result of reading the popup's tree
Collected == {collect_properties(root)}

\* the collected keys whose value differs from the stored one
Changed(props) ==
    {{k \in DOMAIN props : PyNotEqual(config.val[k[1]].val[k[2]], props[k])}}

ChangedIn(ch, c) == {k[2] : k \in {x \in ch : x[1] = c}}

NoDuplicates(seq) == Cardinality(Range(seq)) = Len(seq)

RedrawCall == "update_state(redraw_board=True)"

\* C1: when a leaf fails to parse, the apply attempt writes nothing to the
\* config store, leaves the popup open, shows the error naming a failing leaf
\* in info_label, and neither saves, nor touches the engine, nor redraws,
\* with either button
C1_ParseErrorAborts ==
    [][ (ApplyStep /\ \E w \in Leaves(root) : ~input_value(w).ok) =>
          /\ config' = config
          /\ popup' = "config"
          /\ \E w \in Leaves(root) :
                /\ ~input_value(w).ok
                /\ info_text' = <<"Could not parse value for", w.input_property>>
          /\ Range(effects') \cap {"dismiss", "save_config", "KataGoEngine",
                                   "shutdown(finish=True)", "analyze_all_nodes",
                                   RedrawCall} = {}
          /\ engine' = engine
          /\ game_engine' = game_engine
          /\ constructed' = <<>>
          /\ raised' = "None" ]_vars

\* Apply and Save failed on max_time while the edit of visits, read before it,
\* was not written
C1_Witness ==
    /\ call = Call("update_config", TRUE)
    /\ popup = "config"
    /\ info_text = <<"Could not parse value for", <<"engine", "max_time">>>>
    /\ effects = <<"log_error">>
    /\ config.val["engine"].val["visits"] = Val("int", 100)
    /\ \E w \in Leaves(root) :
          w.input_property = <<"engine", "visits">> /\ w.text = "500"

\* C2: an apply that changes only engine/visits sets the running engine's
\* visit count to the new value, restarts nothing, and records
\* {"engine": ["visits"]}
C2_VisitsHotUpdate ==
    [][ ApplyStep =>
          \A c \in Collected : c.ok =>
             \A ch \in Changed(c.props) : ch = {<<"engine", "visits">>} =>
                /\ engine'.visits = c.props[<<"engine", "visits">>].v
                /\ engine'.id = engine.id
                /\ constructed' = <<>>
                /\ "shutdown(finish=True)" \notin Range(effects')
                /\ updated_cat' = [x \in {"engine"} |-> <<"visits">>] ]_vars

\* C3: every apply whose collection succeeds ends with exactly one
\* update_state(redraw_board=True), its last effect
C3_AlwaysRedraws ==
    [][ ApplyStep =>
          \A c \in Collected : c.ok =>
             /\ raised' = "None"
             /\ effects' # <<>>
             /\ effects'[Len(effects')] = RedrawCall
             /\ Cardinality({i \in DOMAIN effects' : effects'[i] = RedrawCall}) = 1
      ]_vars

\* what C4 says of an apply with the changed engine fields chE and the old
\* engine old
C4_Body(chE, old) ==
    LET restart == chE \ {"max_visits", "max_time"} # {}
        calls   == Range(effects')
    IN  /\ raised' = "None"
        /\ (constructed' # <<>>) <=> restart
        /\ restart =>
             /\ Len(constructed') = 1
             /\ constructed'[1].config = config'.val["engine"]
             /\ constructed'[1].id # old.id
             /\ engine' = Running(constructed'[1])
             /\ game_engine' = constructed'[1].id
             /\ old.katago_process =>
                  /\ "shutdown(finish=True)" \in calls
                  /\ "analyze_all_nodes" \notin calls
             /\ ~old.katago_process =>
                  /\ "analyze_all_nodes" \in calls
                  /\ "shutdown(finish=True)" \notin calls
        /\ ~restart =>
             /\ engine' = old
             /\ game_engine' = game_engine
             /\ calls \cap {"shutdown(finish=True)", "analyze_all_nodes",
                            "KataGoEngine"} = {}

\* C4: with engine/visits unchanged, the engine is restarted iff a changed
\* engine field is neither max_visits nor max_time; a restart makes one new
\* engine from the updated engine config, installs it as katrain.engine and
\* katrain.game.engine, and either shuts the old engine down (finish=True, its
\* worker process had started) or runs analyze_all_nodes (it had not);
\* without a restart the engine is untouched and neither call is made
C4_RestartRule ==
    [][ ApplyStep =>
          \A c \in Collected : c.ok =>
             \A ch \in Changed(c.props) : <<"engine", "visits">> \notin ch =>
                C4_Body(ChangedIn(ch, "engine"), engine) ]_vars

\* a change of model_path restarted an engine whose worker never started
C4_Witness ==
    /\ call.name = "update_config"
    /\ raised = "None"
    /\ constructed # <<>>
    /\ engine.id = 2 /\ game_engine = 2
    /\ "analyze_all_nodes" \in Range(effects)
    /\ config.val["engine"].val["model_path"] = Val("str", "b.bin")

\* what C5 says of the store: collected keys hold the collected value, every
\* other entry and the shape of the store are as before
C5_StoreUpdated(props, ch) ==
    /\ \A k \in DOMAIN props : config'.val[k[1]].val[k[2]] = props[k]
    /\ config'.keys = config.keys
    /\ \A c \in Range(config.keys) :
          /\ config'.val[c].keys = config.val[c].keys
          /\ \A f \in Range(config.val[c].keys) :
                <<c, f>> \notin ch => config'.val[c].val[f] = config.val[c].val[f]

\* what C5 says of the lists: under c exactly the changed fields of c, once each
C5_ListsExact(ch) ==
    /\ \A k \in ch : k[1] \in DOMAIN updated_cat'
    /\ \A c \in DOMAIN updated_cat' :
          /\ Range(updated_cat'[c]) = ChangedIn(ch, c)
          /\ NoDuplicates(updated_cat'[c])

\* C5 as stated: the record holds the categories with a changed field and no
\* other; one changed field f of c gives exactly {c: [f]}
C5_Original ==
    [][ ApplyStep =>
          \A c \in Collected : c.ok =>
             \A ch \in Changed(c.props) :
                /\ C5_StoreUpdated(c.props, ch)
                /\ C5_ListsExact(ch)
                /\ DOMAIN updated_cat' = {k[1] : k \in ch}
                /\ \A k \in ch :
                      ch = {k} => updated_cat' = [x \in {k[1]} |-> <<k[2]>>] ]_vars

\* C5, amended: the store is updated as stated and the lists are exact, but
\* the record also holds "engine", with an empty list when no engine field
\* changed: one changed field f of c gives {c: [f]} plus "engine": []
C5_DiffCorrect ==
    [][ ApplyStep =>
          \A c \in Collected : c.ok =>
             \A ch \in Changed(c.props) :
                /\ C5_StoreUpdated(c.props, ch)
                /\ C5_ListsExact(ch)
                /\ DOMAIN updated_cat' = {k[1] : k \in ch} \cup {"engine"}
                /\ \A k \in ch :
                      ch = {k} =>
                         updated_cat' = [x \in {k[1], "engine"} |->
                                            IF x = k[1] THEN <<k[2]>> ELSE <<>>]
      ]_vars

\* only trainer/lock_ai was changed
C5_Witness ==
    /\ call.name = "update_config"
    /\ raised = "None"
    /\ DOMAIN updated_cat = {"trainer", "engine"}
    /\ updated_cat["trainer"] = <<"lock_ai">>
    /\ updated_cat["engine"] = <<>>
    /\ config.val["trainer"].val["lock_ai"] = Val("bool", 1)
    /\ config.val["trainer"].val["theme"] = Val("dict", 0)
    /\ config.val["debug"].val["level"] = Val("int", 0)

-----------------------------------------------------------------------------
(* Properties of new_game *)

NewGameStep == popup = "new_game" /\ call'.name = "new_game"

\* the root new_game assembles from the popup's tree
AssembledRoot == {Merge(DEFAULT_PROPERTIES, collect_properties(root).props)}

FitsBoard(node) ==
    board_size(node)[1] <= MaxBoard /\ board_size(node)[2] <= MaxBoard

TooBigText == <<"Board size too big, should be at most 52">>

\* what C6 says of a root that fits: "new-game" is dispatched once, with the
\* default template overridden by the collected properties, then the popup
\* is dismissed
C6_Dispatches(node) ==
    /\ dispatched' = <<<<"new-game", node>>>>
    /\ \A props \in {collect_properties(root).props} :
          /\ \A k \in DOMAIN props : dispatched'[1][2][k] = props[k]
          /\ \A k \in DOMAIN DEFAULT_PROPERTIES \ DOMAIN props :
                dispatched'[1][2][k] = DEFAULT_PROPERTIES[k]
    /\ Cardinality({i \in DOMAIN effects' : effects'[i] = "new-game"}) = 1
    /\ effects'[Len(effects')] = "dismiss"
    /\ popup' = "none"

\* C6 as stated: dispatch iff width and height are at most 52; otherwise the
\* error text is shown, nothing is dispatched, no root node is created and the
\* popup stays
C6_Original ==
    [][ NewGameStep =>
          \A node \in AssembledRoot :
             /\ (dispatched' # <<>>) <=> FitsBoard(node)
             /\ ~FitsBoard(node) =>
                   /\ info_text' = TooBigText
                   /\ "new-game" \notin Range(effects')
                   /\ new_root' = <<>>
                   /\ "GameNode" \notin Range(effects')
                   /\ popup' = "new_game"
             /\ FitsBoard(node) => C6_Dispatches(node) ]_vars

\* C6, amended: as stated, except that the root node is constructed before
\* the size check also when the board is too big; it is then dropped, never
\* dispatched
C6_BoardSizeGate ==
    [][ NewGameStep =>
          \A node \in AssembledRoot :
             /\ (dispatched' # <<>>) <=> FitsBoard(node)
             /\ new_root' = node
             /\ ~FitsBoard(node) =>
                   /\ info_text' = TooBigText
                   /\ "new-game" \notin Range(effects')
                   /\ dispatched' = <<>>
                   /\ popup' = "new_game"
             /\ FitsBoard(node) => C6_Dispatches(node) ]_vars

\* a 53x19 board was refused
C6_Witness ==
    /\ call.name = "new_game"
    /\ popup = "new_game"
    /\ info_text = TooBigText
    /\ dispatched = <<>>
    /\ new_root # <<>>
    /\ board_size(new_root) = <<53, 19>>

-----------------------------------------------------------------------------
(* Properties of _build *)

Built == popup = "config" /\ ~scheduled /\ call.name = "_build"

Fields(c) == Range(config.val[c].keys)

\* the fields of category c with a value of type t
FieldsOfType(c, t) == {f \in Fields(c) : config.val[c].val[f].t = t}

\* the fields of c whose value is an int, a float, a str or a bool
Supported(c) == UNION {FieldsOfType(c, t) : t \in {"int", "float", "str", "bool"}}

Shown == {c \in Range(config.keys) : c \notin ignore_cats}

LeavesOf(c, f) == {w \in Leaves(root) : w.input_property = <<c, f>>}

\* the place of category c in the mapping
Position(c) == CHOOSE i \in DOMAIN config.keys : config.keys[i] = c

Abs(n) == IF n < 0 THEN 0 - n ELSE n

MaxOf(S) == CHOOSE n \in S : \A m \in S : m <= n

\* the totals before assignment i
TotalsBefore(i) == IF i = 1 THEN <<0, 0>> ELSE placed[i - 1].props_in_col

\* C7: each shown category goes, with its field count, to the column with the
\* smaller running total (the left one on a tie), and after every assignment
\* the totals differ by at most the largest field count placed so far
C7_Balance ==
    Built =>
      /\ {placed[i].k1 : i \in DOMAIN placed} = Shown
      /\ \A i \in DOMAIN placed :
            LET before == TotalsBefore(i)
                after  == placed[i].props_in_col
                col    == IF before[1] <= before[2] THEN 1 ELSE 2
            IN  /\ placed[i].len_d = Cardinality(Supported(placed[i].k1))
                /\ placed[i].col = col
                /\ after = [before EXCEPT ![col] = @ + placed[i].len_d]
                /\ Abs(after[1] - after[2]) <=
                      MaxOf({placed[j].len_d : j \in 1..i})
      /\ props_in_col = TotalsBefore(Len(placed) + 1)

\* three categories were placed, both columns are used and unequal
C7_Witness ==
    /\ Built
    /\ Len(placed) >= 3
    /\ props_in_col[2] > 0
    /\ props_in_col[1] # props_in_col[2]

\* C8: in a shown category a bool field is a checkbox (never an integer
\* input), a float a float input, an int an integer input, a str a text input
C8_TypePriority ==
    Built =>
      \A c \in Shown :
         /\ \A f \in FieldsOfType(c, "bool") :
               /\ LeavesOf(c, f) # {}
               /\ \A w \in LeavesOf(c, f) : w.cls = "LabelledCheckBox"
         /\ \A f \in FieldsOfType(c, "float") :
               /\ LeavesOf(c, f) # {}
               /\ \A w \in LeavesOf(c, f) : w.cls = "LabelledFloatInput"
         /\ \A f \in FieldsOfType(c, "int") :
               /\ LeavesOf(c, f) # {}
               /\ \A w \in LeavesOf(c, f) : w.cls = "LabelledIntInput"
         /\ \A f \in FieldsOfType(c, "str") :
               /\ LeavesOf(c, f) # {}
               /\ \A w \in LeavesOf(c, f) : w.cls = "LabelledTextInput"

\* a form with a checkbox for a bool field and an integer input for an int
C8_Witness ==
    /\ Built
    /\ \E c \in Shown :
          /\ \E f \in FieldsOfType(c, "bool") : LeavesOf(c, f) # {}
          /\ \E f \in FieldsOfType(c, "int") : LeavesOf(c, f) # {}

\* C9 as stated: every dict field of a shown category is a structured-text
\* leaf with key <<category, field>> and counts in the category's field
\* count; only the other unsupported values are dropped
C9_Original ==
    Built =>
      /\ \A c \in Shown :
            /\ \A f \in FieldsOfType(c, "dict") :
                  \E w \in LeavesOf(c, f) : w.cls = "LabelledObjectInputArea"
            /\ \A f \in FieldsOfType(c, "list") : LeavesOf(c, f) = {}
      /\ \A i \in DOMAIN placed :
            placed[i].len_d =
               Cardinality(Supported(placed[i].k1)
                           \cup FieldsOfType(placed[i].k1, "dict"))

\* C9, amended: a dict field is dropped like a list: it has no leaf and does
\* not count; the leaves are the int, float, str and bool fields of the shown
\* categories, once each, and none is a structured-text input
C9_DictDropped ==
    Built =>
      /\ \A c \in Shown :
            /\ \A f \in FieldsOfType(c, "dict") \cup FieldsOfType(c, "list") :
                  LeavesOf(c, f) = {}
            /\ \A f \in Supported(c) : LeavesOf(c, f) # {}
      /\ \A w \in Leaves(root) : w.cls # "LabelledObjectInputArea"
      /\ Cardinality(Leaves(root)) =
            props_in_col[1] + props_in_col[2]
      /\ \A i \in DOMAIN placed :
            placed[i].len_d = Cardinality(Supported(placed[i].k1))

\* a shown category with a dict field and a supported field was built
C9_Witness ==
    /\ Built
    /\ \E c \in Shown :
          /\ FieldsOfType(c, "dict") # {}
          /\ Supported(c) # {}
          /\ \E i \in DOMAIN placed : placed[i].k1 = c /\ placed[i].len_d = 1

\* C10 as stated: the shown categories are assigned in non-increasing order
\* of the number of fields kept by the type filter, equal counts in mapping
\* order
C10_Original ==
    Built =>
      \A i, j \in DOMAIN placed :
         i < j =>
            /\ placed[i].len_d >= placed[j].len_d
            /\ placed[i].len_d = placed[j].len_d =>
                  Position(placed[i].k1) < Position(placed[j].k1)

\* C10, amended: the order is non-increasing in the number of all fields of
\* the category, before the type filter, equal numbers in mapping order
C10_SortedByAllFields ==
    Built =>
      \A i, j \in DOMAIN placed :
         i < j =>
            LET ni == Cardinality(Fields(placed[i].k1))
                nj == Cardinality(Fields(placed[j].k1))
            IN  /\ ni >= nj
                /\ ni = nj => Position(placed[i].k1) < Position(placed[j].k1)

\* a category with fewer kept fields was assigned before one with more
C10_Witness ==
    /\ Built
    /\ \E i, j \in DOMAIN placed :
          /\ i < j
          /\ placed[i].len_d < placed[j].len_d
          /\ Cardinality(Fields(placed[i].k1)) > Cardinality(Fields(placed[j].k1))

====
